---------------------------- MODULE Spec2Model ----------------------------
(***************************************************************************)
(* A model of the chainbridge pallet (src/chainbridge/src/lib.rs and       *)
(* src/chainbridge/src/types.rs): the relayer set and threshold, the chain *)
(* whitelist with its outbound deposit nonces, the resource registry, the  *)
(* proposal votes keyed by (source chain, nonce, call), the resolution of  *)
(* a proposal and the dispatch of its call, and the outbound transfers.    *)
(*                                                                         *)
(* Every pallet function is an operator from a context c = [s, ev, dl]     *)
(* (the storage s, the events ev deposited and the calls dl dispatched so  *)
(* far in the running extrinsic) to an outcome [res, s, ev, dl].  The host *)
(* of this revision does not roll the storage back when an extrinsic       *)
(* returns an error (no #[transactional] on any call), so the outcome of a *)
(* failed extrinsic carries whatever was written before the error.         *)
(***************************************************************************)
EXTENDS Integers, Sequences, FiniteSets, TLC

VARIABLES
    ChainNonces,       \* ChainId -> DepositNonce, or NoneVal (OptionQuery)
    RelayerThreshold,  \* u32
    Relayers,          \* the accounts mapped to true
    RelayerCount,      \* u32
    Votes,             \* (ChainId, DepositNonce, Proposal) -> ProposalVotes, or NoneVal
    Resources,         \* ResourceId -> method bytes, or NoneVal
    blockNumber,       \* frame_system's block number
    op,                \* the name of the last extrinsic or outbound call
    result,            \* its DispatchResult: "Ok" or the error
    events,            \* the events it deposited, in order
    dispatched,        \* the calls it dispatched: <<src_id, nonce, call, origin, result,
                       \*   the storage the call ran on>>
    executed,          \* per proposal key, how many dispatches of its call returned Ok
    emitted,           \* per destination, the nonces of the transfer events, in order
    derive_args,       \* the arguments <<chain, id>> given to derive_resource_id, or NoneVal
    derive_ret,        \* the ResourceId it returned, or NoneVal
    complete_args,     \* the arguments <<self, threshold, total>> given to try_to_complete, or NoneVal
    complete_ret       \* <<the status it returned, self afterwards>>, or NoneVal

storage == <<ChainNonces, RelayerThreshold, Relayers, RelayerCount, Votes, Resources>>
vars == <<ChainNonces, RelayerThreshold, Relayers, RelayerCount, Votes, Resources,
          blockNumber, op, result, events, dispatched, executed, emitted,
          derive_args, derive_ret, complete_args, complete_ret>>

-----------------------------------------------------------------------------
(* Program constants *)

DEFAULT_RELAYER_THRESHOLD == 1
LocalChainId == 5
ProposalLifetime == 10
TestUserId == 1
RELAYER_A == 2
RELAYER_B == 3
RELAYER_C == 4
BridgeAccount == 6
TEST_THRESHOLD == 2

(* Bounds of the model *)

MaxThreshold == 2
MaxNonce == 2
MaxIdLen == 33
MaxVotes == 3

-----------------------------------------------------------------------------
(* Values *)

\* Option<T>: None is the empty sequence, Some(x) the sequence of x alone.
NoneVal == <<>>
Some(x) == <<x>>
unwrap(o) == o[1]

Root == <<"Root">>
NoOrigin == <<"None">>
Signed(who) == <<"Signed", who>>

Initiated == "Initiated"
Approved == "Approved"
Rejected == "Rejected"

\* The proposals (runtime calls) the model votes on.  "remark" needs a signed
\* origin and nothing else; "transfer" is a call into another pallet whose
\* result depends on state of the host that the bridge does not see.
Remark == "remark"
Transfer == "transfer"

\* A proposal may be any call of the runtime (mock.rs: Proposal = Call), the
\* bridge's own calls among them: set_threshold(TEST_THRESHOLD) as a proposal.
BridgeSetThreshold == "bridge.set_threshold"

\* A key that leaves the call out
Key_without_call(src_id, nonce, prop) == <<src_id, nonce, Remark>>

\* The key of a proposal in the Votes double map: src_id, (nonce, call)
Key(src_id, nonce, prop) == <<src_id, nonce, prop>>

-----------------------------------------------------------------------------
(* Contexts and outcomes *)

Store == [ChainNonces |-> ChainNonces, RelayerThreshold |-> RelayerThreshold,
          Relayers |-> Relayers, RelayerCount |-> RelayerCount,
          Votes |-> Votes, Resources |-> Resources]

Ctx == [s |-> Store, ev |-> <<>>, dl |-> <<>>]

Ok(c) == [res |-> "Ok", s |-> c.s, ev |-> c.ev, dl |-> c.dl]
Err(c, e) == [res |-> e, s |-> c.s, ev |-> c.ev, dl |-> c.dl]

deposit_event(c, e) == [c EXCEPT !.ev = Append(@, e)]

-----------------------------------------------------------------------------
(* types.rs: ProposalVotes *)

ProposalVotes_default == [votes_for |-> <<>>, votes_against |-> <<>>,
                          status |-> Initiated, expiry |-> 0]

Contains(seq, x) == \E i \in 1..Len(seq) : seq[i] = x

\* try_to_complete approving one vote early
try_to_complete_early(v, threshold, total) ==
    IF Len(v.votes_for) + 1 >= threshold THEN Approved
    ELSE IF total >= threshold /\ Len(v.votes_against) + threshold > total THEN Rejected
    ELSE Initiated

\* try_to_complete rejecting without asking whether the relayers can reach the threshold
try_to_complete_no_total(v, threshold, total) ==
    IF Len(v.votes_for) >= threshold THEN Approved
    ELSE IF Len(v.votes_against) + threshold > total THEN Rejected
    ELSE Initiated

\* try_to_complete that looks at the votes against first
try_to_complete_reject_first(v, threshold, total) ==
    IF total >= threshold /\ Len(v.votes_against) + threshold > total THEN Rejected
    ELSE IF Len(v.votes_for) >= threshold THEN Approved
    ELSE Initiated

\* try_to_complete that wants one vote in favour more than the threshold
try_to_complete_strict(v, threshold, total) ==
    IF Len(v.votes_for) > threshold THEN Approved
    ELSE IF total >= threshold /\ Len(v.votes_against) + threshold > total THEN Rejected
    ELSE Initiated

\* try_to_complete that rejects one vote against later
try_to_complete_reject_late(v, threshold, total) ==
    IF Len(v.votes_for) >= threshold THEN Approved
    ELSE IF total >= threshold /\ Len(v.votes_against) + threshold > total + 1 THEN Rejected
    ELSE Initiated

\* The status returned; self.status is set to it unless it is Initiated.
\* (The u32 addition cannot overflow for the thresholds of the model.)
try_to_complete(v, threshold, total) ==
    IF Len(v.votes_for) >= threshold THEN Approved
    ELSE IF total >= threshold /\ Len(v.votes_against) + threshold > total THEN Rejected
    ELSE Initiated

\* self after try_to_complete
completed(v, threshold, total) ==
    LET st == try_to_complete(v, threshold, total)
    IN  IF st = Initiated THEN v ELSE [v EXCEPT !.status = st]

\* is_complete that never finds a proposal complete
is_complete_never(v) == FALSE

is_complete(v) == v.status # Initiated

\* has_voted that looks at the votes in favour only
has_voted_for_only(v, who) == Contains(v.votes_for, who)

has_voted(v, who) == Contains(v.votes_for, who) \/ Contains(v.votes_against, who)

\* is_expired that still admits the block of the expiry
is_expired_late(v, now) == v.expiry < now

is_expired(v, now) == v.expiry <= now


-----------------------------------------------------------------------------
(* Origins *)

ensure_signed(o) == o[1] = "Signed"

ensure_root(o) == o = Root

\* mock.rs: AdminOrigin = EnsureSignedBy<TestUserId, u64>
AdminOrigin_try_origin(o) == o = Signed(TestUserId)

ensure_admin(o) == AdminOrigin_try_origin(o) \/ ensure_root(o)

account_id == BridgeAccount

\* An EnsureBridge that accepts every signed origin
EnsureBridge_any_signed(o) == o[1] = "Signed"

EnsureBridge_try_origin(o) == o[1] = "Signed" /\ o[2] = account_id

-----------------------------------------------------------------------------
(* lib.rs: utility methods *)

is_relayer(s, who) == who \in s.Relayers

resource_exists(s, id) == s.Resources[id] # NoneVal

chain_whitelisted(s, id) == s.ChainNonces[id] # NoneVal

unwrap_or_default(o) == IF o = NoneVal THEN 0 ELSE unwrap(o)

\* bump_nonce that returns the next nonce and does not store it
bump_nonce_not_stored(c, id) ==
    [c |-> c, nonce |-> unwrap_or_default(c.s.ChainNonces[id]) + 1]

\* The context after the insert, and the nonce returned
bump_nonce(c, id) ==
    LET nonce == unwrap_or_default(c.s.ChainNonces[id]) + 1
    IN  [c |-> [c EXCEPT !.s.ChainNonces[id] = Some(nonce)], nonce |-> nonce]

-----------------------------------------------------------------------------
(* lib.rs: admin methods *)

\* set_relayer_threshold without the check of the value
set_relayer_threshold_unchecked(c, threshold) ==
    Ok(deposit_event([c EXCEPT !.s.RelayerThreshold = threshold],
                     <<"RelayerThresholdChanged", threshold>>))

set_relayer_threshold(c, threshold) ==
    IF ~(threshold > 0) THEN Err(c, "InvalidThreshold")
    ELSE Ok(deposit_event([c EXCEPT !.s.RelayerThreshold = threshold],
                          <<"RelayerThresholdChanged", threshold>>))

register_resource(c, id, method) == Ok([c EXCEPT !.s.Resources[id] = Some(method)])

unregister_resource(c, id) == Ok([c EXCEPT !.s.Resources[id] = NoneVal])

\* whitelist that accepts the local chain id
whitelist_any_chain(c, id) ==
    IF chain_whitelisted(c.s, id) THEN Err(c, "ChainAlreadyWhitelisted")
    ELSE Ok(deposit_event([c EXCEPT !.s.ChainNonces[id] = Some(0)], <<"ChainWhitelisted", id>>))

\* whitelist that takes a chain it already holds and starts its nonce again
whitelist_resetting(c, id) ==
    IF ~(id # LocalChainId) THEN Err(c, "InvalidChainId")
    ELSE Ok(deposit_event([c EXCEPT !.s.ChainNonces[id] = Some(0)], <<"ChainWhitelisted", id>>))

whitelist(c, id) ==
    IF ~(id # LocalChainId) THEN Err(c, "InvalidChainId")
    ELSE IF chain_whitelisted(c.s, id) THEN Err(c, "ChainAlreadyWhitelisted")
    ELSE Ok(deposit_event([c EXCEPT !.s.ChainNonces[id] = Some(0)], <<"ChainWhitelisted", id>>))

\* register_relayer that counts the relayer before it looks for it
register_relayer_count_first(c, relayer) ==
    LET c1 == [c EXCEPT !.s.RelayerCount = @ + 1]
    IN  IF is_relayer(c.s, relayer) THEN Err(c1, "RelayerAlreadyExists")
        ELSE Ok(deposit_event([c1 EXCEPT !.s.Relayers = @ \cup {relayer}],
                              <<"RelayerAdded", relayer>>))

register_relayer(c, relayer) ==
    IF is_relayer(c.s, relayer) THEN Err(c, "RelayerAlreadyExists")
    ELSE Ok(deposit_event([c EXCEPT !.s.Relayers = @ \cup {relayer},
                                    !.s.RelayerCount = @ + 1],
                          <<"RelayerAdded", relayer>>))

\* unregister_relayer without the check that the relayer exists
unregister_relayer_unchecked(c, relayer) ==
    Ok(deposit_event([c EXCEPT !.s.Relayers = @ \ {relayer},
                               !.s.RelayerCount = @ - 1],
                     <<"RelayerRemoved", relayer>>))

\* unregister_relayer that takes the relayer's votes out of the open proposals
unregister_relayer_retracting(c, relayer) ==
    IF ~is_relayer(c.s, relayer) THEN Err(c, "RelayerInvalid")
    ELSE Ok(deposit_event(
             [c EXCEPT !.s.Relayers = @ \ {relayer},
                       !.s.RelayerCount = @ - 1,
                       !.s.Votes = [k \in DOMAIN @ |->
                           IF @[k] = NoneVal \/ is_complete(unwrap(@[k])) THEN @[k]
                           ELSE Some([unwrap(@[k]) EXCEPT
                                        !.votes_for = SelectSeq(@, LAMBDA x : x # relayer),
                                        !.votes_against = SelectSeq(@, LAMBDA x : x # relayer)])]],
             <<"RelayerRemoved", relayer>>))

unregister_relayer(c, relayer) ==
    IF ~is_relayer(c.s, relayer) THEN Err(c, "RelayerInvalid")
    ELSE Ok(deposit_event([c EXCEPT !.s.Relayers = @ \ {relayer},
                                    !.s.RelayerCount = @ - 1],
                          <<"RelayerRemoved", relayer>>))

-----------------------------------------------------------------------------
(* The proposals' calls, dispatched by the host *)

\* lib.rs: the pallet's call set_threshold, which a proposal may carry
\* set_threshold open to every origin
set_threshold_unguarded(c, origin, threshold) == set_relayer_threshold(c, threshold)

set_threshold(c, origin, threshold) ==
    IF ~ensure_admin(origin) THEN Err(c, "BadOrigin")
    ELSE set_relayer_threshold(c, threshold)

\* example-pallet: remark and transfer both demand the bridge origin; remark
\* then deposits its event, transfer calls a contract and fails when the
\* contract does (hostOk: the host's answer).  The bridge's set_threshold
\* runs as it does when it is called as an extrinsic.
dispatch(c, call, origin, hostOk) ==
    IF call = BridgeSetThreshold THEN set_threshold(c, origin, TEST_THRESHOLD)
    ELSE IF ~EnsureBridge_try_origin(origin) THEN Err(c, "BadOrigin")
    ELSE IF call = Remark THEN Ok(deposit_event(c, <<"Remark">>))
    ELSE IF hostOk THEN Ok(c)
    ELSE Err(c, "MintFailed")

-----------------------------------------------------------------------------
(* lib.rs: proposal voting and execution methods *)

\* commit_vote that starts an expired proposal afresh
commit_vote_renewing(c, now, who, nonce, src_id, prop, in_favour) ==
    LET k == Key(src_id, nonce, prop)
        fresh == [ProposalVotes_default EXCEPT !.expiry = now + ProposalLifetime]
        votes == IF c.s.Votes[k] = NoneVal THEN fresh
                 ELSE IF ~is_complete(unwrap(c.s.Votes[k])) /\ is_expired(unwrap(c.s.Votes[k]), now)
                      THEN fresh
                 ELSE unwrap(c.s.Votes[k])
    IN  IF is_complete(votes) THEN Err(c, "ProposalAlreadyComplete")
        ELSE IF has_voted(votes, who) THEN Err(c, "RelayerAlreadyVoted")
        ELSE IF in_favour
             THEN Ok(deposit_event(
                      [c EXCEPT !.s.Votes[k] = Some([votes EXCEPT !.votes_for = Append(@, who)])],
                      <<"VoteFor", src_id, nonce, who>>))
             ELSE Ok(deposit_event(
                      [c EXCEPT !.s.Votes[k] = Some([votes EXCEPT !.votes_against = Append(@, who)])],
                      <<"VoteAgainst", src_id, nonce, who>>))

\* commit_vote that looks for the caller's earlier vote first
commit_vote_voted_first(c, now, who, nonce, src_id, prop, in_favour) ==
    LET k == Key(src_id, nonce, prop)
        votes == IF c.s.Votes[k] # NoneVal THEN unwrap(c.s.Votes[k])
                 ELSE [ProposalVotes_default EXCEPT !.expiry = now + ProposalLifetime]
    IN  IF has_voted(votes, who) THEN Err(c, "RelayerAlreadyVoted")
        ELSE IF is_complete(votes) THEN Err(c, "ProposalAlreadyComplete")
        ELSE IF is_expired(votes, now) THEN Err(c, "ProposalExpired")
        ELSE IF in_favour
             THEN Ok(deposit_event(
                      [c EXCEPT !.s.Votes[k] = Some([votes EXCEPT !.votes_for = Append(@, who)])],
                      <<"VoteFor", src_id, nonce, who>>))
             ELSE Ok(deposit_event(
                      [c EXCEPT !.s.Votes[k] = Some([votes EXCEPT !.votes_against = Append(@, who)])],
                      <<"VoteAgainst", src_id, nonce, who>>))

commit_vote(c, now, who, nonce, src_id, prop, in_favour) ==
    LET k == Key(src_id, nonce, prop)
        votes == IF c.s.Votes[k] # NoneVal THEN unwrap(c.s.Votes[k])
                 ELSE [ProposalVotes_default EXCEPT !.expiry = now + ProposalLifetime]
    IN  IF is_complete(votes) THEN Err(c, "ProposalAlreadyComplete")
        ELSE IF is_expired(votes, now) THEN Err(c, "ProposalExpired")
        ELSE IF has_voted(votes, who) THEN Err(c, "RelayerAlreadyVoted")
        ELSE IF in_favour
             THEN Ok(deposit_event(
                      [c EXCEPT !.s.Votes[k] = Some([votes EXCEPT !.votes_for = Append(@, who)])],
                      <<"VoteFor", src_id, nonce, who>>))
             ELSE Ok(deposit_event(
                      [c EXCEPT !.s.Votes[k] = Some([votes EXCEPT !.votes_against = Append(@, who)])],
                      <<"VoteAgainst", src_id, nonce, who>>))

\* finalize_execution that announces the approval after the dispatch
finalize_execution_approved_last(c, src_id, nonce, call, hostOk) ==
    LET origin == Signed(account_id)
        d == dispatch(c, call, origin, hostOk)
        c2 == [s |-> d.s, ev |-> d.ev,
               dl |-> Append(d.dl, <<src_id, nonce, call, origin, d.res, c.s>>)]
        c3 == deposit_event(c2, <<"ProposalApproved", src_id, nonce>>)
    IN  IF d.res # "Ok" THEN Err(c3, d.res)
        ELSE Ok(deposit_event(c3, <<"ProposalSucceeded", src_id, nonce>>))

\* finalize_execution that dispatches under the root origin
finalize_execution_as_root(c, src_id, nonce, call, hostOk) ==
    LET c1 == deposit_event(c, <<"ProposalApproved", src_id, nonce>>)
        d == dispatch(c1, call, Root, hostOk)
        c2 == [s |-> d.s, ev |-> d.ev,
               dl |-> Append(d.dl, <<src_id, nonce, call, Root, d.res, c1.s>>)]
    IN  IF d.res # "Ok" THEN Err(c2, d.res)
        ELSE Ok(deposit_event(c2, <<"ProposalSucceeded", src_id, nonce>>))

finalize_execution(c, src_id, nonce, call, hostOk) ==
    LET c1 == deposit_event(c, <<"ProposalApproved", src_id, nonce>>)
        origin == Signed(account_id)
        d == dispatch(c1, call, origin, hostOk)
        c2 == [s |-> d.s, ev |-> d.ev,
               dl |-> Append(d.dl, <<src_id, nonce, call, origin, d.res, c1.s>>)]
    IN  IF d.res # "Ok" THEN Err(c2, d.res)
        ELSE Ok(deposit_event(c2, <<"ProposalSucceeded", src_id, nonce>>))

\* cancel_execution that deposits no event
cancel_execution_silent(c, src_id, nonce) == Ok(c)

cancel_execution(c, src_id, nonce) ==
    Ok(deposit_event(c, <<"ProposalRejected", src_id, nonce>>))

\* try_resolve_proposal without the check that the proposal is still open
try_resolve_proposal_unchecked(c, now, nonce, src_id, prop, hostOk) ==
    LET k == Key(src_id, nonce, prop)
    IN  IF c.s.Votes[k] # NoneVal
        THEN LET votes == unwrap(c.s.Votes[k])
                 status == try_to_complete(votes, c.s.RelayerThreshold, c.s.RelayerCount)
                 c1 == [c EXCEPT !.s.Votes[k] =
                            Some(completed(votes, c.s.RelayerThreshold, c.s.RelayerCount))]
             IN  IF is_expired(votes, now) THEN Err(c, "ProposalExpired")
                 ELSE IF status = Approved
                      THEN finalize_execution(c1, src_id, nonce, prop, hostOk)
                 ELSE IF status = Rejected THEN cancel_execution(c1, src_id, nonce)
                 ELSE Ok(c1)
        ELSE Err(c, "ProposalDoesNotExist")

\* try_resolve_proposal that stores an approval only once the call has run
try_resolve_proposal_store_late(c, now, nonce, src_id, prop, hostOk) ==
    LET k == Key(src_id, nonce, prop)
    IN  IF c.s.Votes[k] # NoneVal
        THEN LET votes == unwrap(c.s.Votes[k])
                 status == try_to_complete(votes, c.s.RelayerThreshold, c.s.RelayerCount)
                 done == Some(completed(votes, c.s.RelayerThreshold, c.s.RelayerCount))
                 c1 == [c EXCEPT !.s.Votes[k] = done]
                 f == finalize_execution(c, src_id, nonce, prop, hostOk)
             IN  IF is_complete(votes) THEN Err(c, "ProposalAlreadyComplete")
                 ELSE IF is_expired(votes, now) THEN Err(c, "ProposalExpired")
                 ELSE IF status = Approved
                      THEN IF f.res # "Ok" THEN f
                           ELSE [f EXCEPT !.s.Votes[k] = done]
                 ELSE IF status = Rejected THEN cancel_execution(c1, src_id, nonce)
                 ELSE Ok(c1)
        ELSE Err(c, "ProposalDoesNotExist")

\* try_resolve_proposal that resolves an absent proposal as a new, empty one
try_resolve_proposal_creating(c, now, nonce, src_id, prop, hostOk) ==
    LET k == Key(src_id, nonce, prop)
        votes == IF c.s.Votes[k] # NoneVal THEN unwrap(c.s.Votes[k])
                 ELSE [ProposalVotes_default EXCEPT !.expiry = now + ProposalLifetime]
        status == try_to_complete(votes, c.s.RelayerThreshold, c.s.RelayerCount)
        c1 == [c EXCEPT !.s.Votes[k] =
                   Some(completed(votes, c.s.RelayerThreshold, c.s.RelayerCount))]
    IN  IF is_complete(votes) THEN Err(c, "ProposalAlreadyComplete")
        ELSE IF is_expired(votes, now) THEN Err(c, "ProposalExpired")
        ELSE IF status = Approved THEN finalize_execution(c1, src_id, nonce, prop, hostOk)
        ELSE IF status = Rejected THEN cancel_execution(c1, src_id, nonce)
        ELSE Ok(c1)

\* try_resolve_proposal that does not look at the expiry
try_resolve_proposal_no_expiry(c, now, nonce, src_id, prop, hostOk) ==
    LET k == Key(src_id, nonce, prop)
    IN  IF c.s.Votes[k] # NoneVal
        THEN LET votes == unwrap(c.s.Votes[k])
                 status == try_to_complete(votes, c.s.RelayerThreshold, c.s.RelayerCount)
                 c1 == [c EXCEPT !.s.Votes[k] =
                            Some(completed(votes, c.s.RelayerThreshold, c.s.RelayerCount))]
             IN  IF is_complete(votes) THEN Err(c, "ProposalAlreadyComplete")
                 ELSE IF status = Approved
                      THEN finalize_execution(c1, src_id, nonce, prop, hostOk)
                 ELSE IF status = Rejected THEN cancel_execution(c1, src_id, nonce)
                 ELSE Ok(c1)
        ELSE Err(c, "ProposalDoesNotExist")

\* try_resolve_proposal that stores the record as it was read
try_resolve_proposal_status_unstored(c, now, nonce, src_id, prop, hostOk) ==
    LET k == Key(src_id, nonce, prop)
    IN  IF c.s.Votes[k] # NoneVal
        THEN LET votes == unwrap(c.s.Votes[k])
                 status == try_to_complete(votes, c.s.RelayerThreshold, c.s.RelayerCount)
                 c1 == [c EXCEPT !.s.Votes[k] = Some(votes)]
             IN  IF is_complete(votes) THEN Err(c, "ProposalAlreadyComplete")
                 ELSE IF is_expired(votes, now) THEN Err(c, "ProposalExpired")
                 ELSE IF status = Approved
                      THEN finalize_execution(c1, src_id, nonce, prop, hostOk)
                 ELSE IF status = Rejected THEN cancel_execution(c1, src_id, nonce)
                 ELSE Ok(c1)
        ELSE Err(c, "ProposalDoesNotExist")

try_resolve_proposal(c, now, nonce, src_id, prop, hostOk) ==
    LET k == Key(src_id, nonce, prop)
    IN  IF c.s.Votes[k] # NoneVal
        THEN LET votes == unwrap(c.s.Votes[k])
                 status == try_to_complete(votes, c.s.RelayerThreshold, c.s.RelayerCount)
                 c1 == [c EXCEPT !.s.Votes[k] =
                            Some(completed(votes, c.s.RelayerThreshold, c.s.RelayerCount))]
             IN  IF is_complete(votes) THEN Err(c, "ProposalAlreadyComplete")
                 ELSE IF is_expired(votes, now) THEN Err(c, "ProposalExpired")
                 ELSE IF status = Approved
                      THEN finalize_execution(c1, src_id, nonce, prop, hostOk)
                 ELSE IF status = Rejected THEN cancel_execution(c1, src_id, nonce)
                 ELSE Ok(c1)
        ELSE Err(c, "ProposalDoesNotExist")

vote_for(c, now, who, nonce, src_id, prop, hostOk) ==
    LET r == commit_vote(c, now, who, nonce, src_id, prop, TRUE)
    IN  IF r.res # "Ok" THEN r
        ELSE try_resolve_proposal([s |-> r.s, ev |-> r.ev, dl |-> r.dl],
                                  now, nonce, src_id, prop, hostOk)

vote_against(c, now, who, nonce, src_id, prop, hostOk) ==
    LET r == commit_vote(c, now, who, nonce, src_id, prop, FALSE)
    IN  IF r.res # "Ok" THEN r
        ELSE try_resolve_proposal([s |-> r.s, ev |-> r.ev, dl |-> r.dl],
                                  now, nonce, src_id, prop, hostOk)

-----------------------------------------------------------------------------
(* lib.rs: outbound transfers, called by other pallets *)

transfer_fungible(c, dest_id, resource_id, to, amount) ==
    IF ~chain_whitelisted(c.s, dest_id) THEN Err(c, "ChainNotWhitelisted")
    ELSE LET b == bump_nonce(c, dest_id)
         IN  Ok(deposit_event(b.c, <<"FungibleTransfer", dest_id, b.nonce,
                                     resource_id, amount, to>>))

transfer_nonfungible(c, dest_id, resource_id, token_id, to, metadata) ==
    IF ~chain_whitelisted(c.s, dest_id) THEN Err(c, "ChainNotWhitelisted")
    ELSE LET b == bump_nonce(c, dest_id)
         IN  Ok(deposit_event(b.c, <<"NonFungibleTransfer", dest_id, b.nonce,
                                     resource_id, token_id, to, metadata>>))

\* transfer_generic that takes the nonce before it looks at the whitelist
transfer_generic_bump_first(c, dest_id, resource_id, metadata) ==
    LET b == bump_nonce(c, dest_id)
    IN  IF ~chain_whitelisted(c.s, dest_id) THEN Err(b.c, "ChainNotWhitelisted")
        ELSE Ok(deposit_event(b.c, <<"GenericTransfer", dest_id, b.nonce,
                                     resource_id, metadata>>))

transfer_generic(c, dest_id, resource_id, metadata) ==
    IF ~chain_whitelisted(c.s, dest_id) THEN Err(c, "ChainNotWhitelisted")
    ELSE LET b == bump_nonce(c, dest_id)
         IN  Ok(deposit_event(b.c, <<"GenericTransfer", dest_id, b.nonce,
                                     resource_id, metadata>>))

-----------------------------------------------------------------------------
(* example-pallet lib.rs: transfer_hash *)

\* mock.rs of the example pallet: the resource id of hashes
HashId == "HashId"

\* The result of transfer_generic is dropped: the call returns Ok(().into()).
transfer_hash(c, origin, hash, dest_id) ==
    IF ~ensure_signed(origin) THEN Err(c, "BadOrigin")
    ELSE LET resource_id == HashId
             metadata == hash
             r == transfer_generic(c, dest_id, resource_id, metadata)
         IN  Ok([s |-> r.s, ev |-> r.ev, dl |-> r.dl])

-----------------------------------------------------------------------------
(* lib.rs: derive_resource_id.  A ResourceId is a sequence of 32 bytes;     *)
(* the byte the code calls r_id[j] is r_id[j + 1] here, and id[j] is       *)
(* id[j + 1].                                                              *)

\* The loop: for i in 0..range { r_id[30 - i] = id[range - 1 - i] }
RECURSIVE derive_loop(_, _, _, _)
derive_loop(r_id, id, range, i) ==
    IF i >= range THEN r_id
    ELSE derive_loop([r_id EXCEPT ![30 - i + 1] = id[range - 1 - i + 1]], id, range, i + 1)

\* The loop taking the bytes from the end of id
RECURSIVE derive_loop_from_end(_, _, _, _)
derive_loop_from_end(r_id, id, range, i) ==
    IF i >= range THEN r_id
    ELSE derive_loop_from_end([r_id EXCEPT ![30 - i + 1] = id[Len(id) - 1 - i + 1]],
                              id, range, i + 1)

\* derive_resource_id that keeps the last 31 bytes of a long id
derive_resource_id_last_bytes(chain, id) ==
    LET r_id == [[j \in 1..32 |-> 0] EXCEPT ![31 + 1] = chain]
        range == IF Len(id) > 31 THEN 31 ELSE Len(id)
    IN  derive_loop_from_end(r_id, id, range, 0)

derive_resource_id(chain, id) ==
    LET r_id == [[j \in 1..32 |-> 0] EXCEPT ![31 + 1] = chain]
        range == IF Len(id) > 31 THEN 31 ELSE Len(id)
    IN  derive_loop(r_id, id, range, 0)

-----------------------------------------------------------------------------
(* lib.rs: the pallet's calls *)

set_resource(c, origin, id, method) ==
    IF ~ensure_admin(origin) THEN Err(c, "BadOrigin")
    ELSE register_resource(c, id, method)

remove_resource(c, origin, id) ==
    IF ~ensure_admin(origin) THEN Err(c, "BadOrigin")
    ELSE unregister_resource(c, id)

whitelist_chain(c, origin, id) ==
    IF ~ensure_admin(origin) THEN Err(c, "BadOrigin")
    ELSE whitelist(c, id)

add_relayer(c, origin, v) ==
    IF ~ensure_admin(origin) THEN Err(c, "BadOrigin")
    ELSE register_relayer(c, v)

remove_relayer(c, origin, account) ==
    IF ~ensure_admin(origin) THEN Err(c, "BadOrigin")
    ELSE unregister_relayer(c, account)

\* acknowledge_proposal open to every signed account
acknowledge_proposal_any_signed(c, now, origin, nonce, src_id, r_id, call, hostOk) ==
    IF ~ensure_signed(origin) THEN Err(c, "BadOrigin")
    ELSE IF ~chain_whitelisted(c.s, src_id) THEN Err(c, "ChainNotWhitelisted")
    ELSE IF ~resource_exists(c.s, r_id) THEN Err(c, "ResourceDoesNotExist")
    ELSE vote_for(c, now, origin[2], nonce, src_id, call, hostOk)

\* acknowledge_proposal that does not look at the resource
acknowledge_proposal_any_resource(c, now, origin, nonce, src_id, r_id, call, hostOk) ==
    IF ~ensure_signed(origin) THEN Err(c, "BadOrigin")
    ELSE IF ~is_relayer(c.s, origin[2]) THEN Err(c, "MustBeRelayer")
    ELSE IF ~chain_whitelisted(c.s, src_id) THEN Err(c, "ChainNotWhitelisted")
    ELSE vote_for(c, now, origin[2], nonce, src_id, call, hostOk)

\* acknowledge_proposal that reports the resource it was given in an event
acknowledge_proposal_logging_resource(c, now, origin, nonce, src_id, r_id, call, hostOk) ==
    IF ~ensure_signed(origin) THEN Err(c, "BadOrigin")
    ELSE IF ~is_relayer(c.s, origin[2]) THEN Err(c, "MustBeRelayer")
    ELSE IF ~chain_whitelisted(c.s, src_id) THEN Err(c, "ChainNotWhitelisted")
    ELSE IF ~resource_exists(c.s, r_id) THEN Err(c, "ResourceDoesNotExist")
    ELSE LET out == vote_for(c, now, origin[2], nonce, src_id, call, hostOk)
         IN  [out EXCEPT !.ev = Append(@, <<"Resource", r_id>>)]

acknowledge_proposal(c, now, origin, nonce, src_id, r_id, call, hostOk) ==
    IF ~ensure_signed(origin) THEN Err(c, "BadOrigin")
    ELSE IF ~is_relayer(c.s, origin[2]) THEN Err(c, "MustBeRelayer")
    ELSE IF ~chain_whitelisted(c.s, src_id) THEN Err(c, "ChainNotWhitelisted")
    ELSE IF ~resource_exists(c.s, r_id) THEN Err(c, "ResourceDoesNotExist")
    ELSE vote_for(c, now, origin[2], nonce, src_id, call, hostOk)

reject_proposal(c, now, origin, nonce, src_id, r_id, call, hostOk) ==
    IF ~ensure_signed(origin) THEN Err(c, "BadOrigin")
    ELSE IF ~is_relayer(c.s, origin[2]) THEN Err(c, "MustBeRelayer")
    ELSE IF ~chain_whitelisted(c.s, src_id) THEN Err(c, "ChainNotWhitelisted")
    ELSE IF ~resource_exists(c.s, r_id) THEN Err(c, "ResourceDoesNotExist")
    ELSE vote_against(c, now, origin[2], nonce, src_id, call, hostOk)

eval_vote_state(c, now, origin, nonce, src_id, proposal, hostOk) ==
    IF ~ensure_signed(origin) THEN Err(c, "BadOrigin")
    ELSE try_resolve_proposal(c, now, nonce, src_id, proposal, hostOk)

-----------------------------------------------------------------------------
(* The values the model draws inputs from *)

ChainIds == {1, 2, LocalChainId}
Nonces == {1}
Calls == {Remark, Transfer}
ResourceIds == {"r1", "r2"}
Proposals == Calls \cup {BridgeSetThreshold}
Keys == ChainIds \X Nonces \X Proposals
BlockNumbers == {1, ProposalLifetime, ProposalLifetime + 1}

Method == "m"
Recipient == "to"
Amount == "amount"
TokenId == "token"
Metadata == "meta"

TransferEvents == {"FungibleTransfer", "NonFungibleTransfer", "GenericTransfer"}

-----------------------------------------------------------------------------
(* The state machine *)

Init ==
    /\ ChainNonces = [c \in ChainIds |-> NoneVal]
    /\ RelayerThreshold = DEFAULT_RELAYER_THRESHOLD
    /\ Relayers = {}
    /\ RelayerCount = 0
    /\ Votes = [k \in Keys |-> NoneVal]
    /\ Resources = [r \in ResourceIds |-> NoneVal]
    /\ blockNumber = 1
    /\ op = "genesis"
    /\ result = "Ok"
    /\ events = <<>>
    /\ dispatched = <<>>
    /\ executed = [k \in Keys |-> 0]
    /\ emitted = [c \in ChainIds |-> <<>>]
    /\ derive_args = NoneVal
    /\ derive_ret = NoneVal
    /\ complete_args = NoneVal
    /\ complete_ret = NoneVal

\* The nonces of the transfer events for dest among the events ev, in order
RECURSIVE NoncesFor(_, _)
NoncesFor(ev, dest) ==
    IF ev = <<>> THEN <<>>
    ELSE LET e == Head(ev)
         IN  (IF e[1] \in TransferEvents /\ e[2] = dest THEN <<e[3]>> ELSE <<>>)
             \o NoncesFor(Tail(ev), dest)

\* How many of the dispatches dl are dispatches of key k that returned Ok
RECURSIVE OkDispatches(_, _)
OkDispatches(dl, k) ==
    IF dl = <<>> THEN 0
    ELSE LET d == Head(dl)
         IN  (IF Key(d[1], d[2], d[3]) = k /\ d[5] = "Ok" THEN 1 ELSE 0)
             + OkDispatches(Tail(dl), k)

\* The host runs one call to its end: what it wrote stays, error or not.
Commit(out) ==
    /\ ChainNonces' = out.s.ChainNonces
    /\ RelayerThreshold' = out.s.RelayerThreshold
    /\ Relayers' = out.s.Relayers
    /\ RelayerCount' = out.s.RelayerCount
    /\ Votes' = out.s.Votes
    /\ Resources' = out.s.Resources
    /\ result' = out.res
    /\ events' = out.ev
    /\ dispatched' = out.dl
    /\ executed' = [k \in Keys |-> executed[k] + OkDispatches(out.dl, k)]
    /\ emitted' = [c \in ChainIds |-> emitted[c] \o NoncesFor(out.ev, c)]
    /\ UNCHANGED <<blockNumber, derive_args, derive_ret, complete_args, complete_ret>>

SetThreshold(origin, threshold) ==
    /\ op' = "set_threshold"
    /\ Commit(set_threshold(Ctx, origin, threshold))

SetResource(origin, id) ==
    /\ op' = "set_resource"
    /\ Commit(set_resource(Ctx, origin, id, Method))

RemoveResource(origin, id) ==
    /\ op' = "remove_resource"
    /\ Commit(remove_resource(Ctx, origin, id))

WhitelistChain(origin, id) ==
    /\ op' = "whitelist_chain"
    /\ Commit(whitelist_chain(Ctx, origin, id))

AddRelayer(origin, v) ==
    /\ op' = "add_relayer"
    /\ Commit(add_relayer(Ctx, origin, v))

RemoveRelayer(origin, v) ==
    /\ op' = "remove_relayer"
    /\ Commit(remove_relayer(Ctx, origin, v))

AcknowledgeProposal(origin, nonce, src_id, r_id, call, hostOk) ==
    /\ op' = "acknowledge_proposal"
    /\ Commit(acknowledge_proposal(Ctx, blockNumber, origin, nonce, src_id, r_id, call, hostOk))

RejectProposal(origin, nonce, src_id, r_id, call, hostOk) ==
    /\ op' = "reject_proposal"
    /\ Commit(reject_proposal(Ctx, blockNumber, origin, nonce, src_id, r_id, call, hostOk))

EvalVoteState(origin, nonce, src_id, call, hostOk) ==
    /\ op' = "eval_vote_state"
    /\ Commit(eval_vote_state(Ctx, blockNumber, origin, nonce, src_id, call, hostOk))

\* The outbound nonce is a u64; the model stops a destination at MaxNonce.
TransferFungible(dest_id, resource_id) ==
    /\ unwrap_or_default(ChainNonces[dest_id]) < MaxNonce
    /\ op' = "transfer_fungible"
    /\ Commit(transfer_fungible(Ctx, dest_id, resource_id, Recipient, Amount))

TransferNonfungible(dest_id, resource_id) ==
    /\ unwrap_or_default(ChainNonces[dest_id]) < MaxNonce
    /\ op' = "transfer_nonfungible"
    /\ Commit(transfer_nonfungible(Ctx, dest_id, resource_id, TokenId, Recipient, Metadata))

TransferGeneric(dest_id, resource_id) ==
    /\ unwrap_or_default(ChainNonces[dest_id]) < MaxNonce
    /\ op' = "transfer_generic"
    /\ Commit(transfer_generic(Ctx, dest_id, resource_id, Metadata))

\* Blocks pass; the events of a block are cleared when the next one starts.
SetBlockNumber(b) ==
    /\ b > blockNumber
    /\ blockNumber' = b
    /\ op' = "set_block_number"
    /\ result' = "Ok"
    /\ events' = <<>>
    /\ dispatched' = <<>>
    /\ UNCHANGED <<storage, executed, emitted, derive_args, derive_ret,
                   complete_args, complete_ret>>

Accounts == {RELAYER_A, RELAYER_B, RELAYER_C}

\* The bridge from genesis over the blocks of a proposal's lifetime: every
\* extrinsic of the pallet, two candidate relayers, one resource, one source
\* chain that can be whitelisted and one that never is, and one proposal,
\* whose call may fail when it is dispatched.
Next ==
    \/ \E t \in 0..MaxThreshold : SetThreshold(Root, t)
    \/ SetResource(Root, "r1")
    \/ RemoveResource(Root, "r1")
    \/ WhitelistChain(Root, 1)
    \/ \E v \in {RELAYER_A, RELAYER_B} : AddRelayer(Root, v)
    \/ \E v \in {RELAYER_A, RELAYER_B} : RemoveRelayer(Root, v)
    \/ \E v \in {RELAYER_A, RELAYER_B}, c \in {1, 2}, h \in BOOLEAN :
          AcknowledgeProposal(Signed(v), 1, c, "r1", Transfer, h)
    \/ \E v \in {RELAYER_A, RELAYER_B}, c \in {1, 2}, h \in BOOLEAN :
          RejectProposal(Signed(v), 1, c, "r1", Transfer, h)
    \/ \E v \in {RELAYER_A, RELAYER_B}, h \in BOOLEAN :
          EvalVoteState(Signed(v), 1, 1, Transfer, h)
    \/ \E b \in BlockNumbers : SetBlockNumber(b)

Spec == Init /\ [][Next]_vars

\* The bridge from genesis within one block, with three candidate relayers:
\* the quorum arithmetic under every threshold and relayer count.
NextQuorum ==
    \/ \E t \in 0..MaxThreshold : SetThreshold(Root, t)
    \/ SetResource(Root, "r1")
    \/ RemoveResource(Root, "r1")
    \/ WhitelistChain(Root, 1)
    \/ \E v \in Accounts : AddRelayer(Root, v)
    \/ \E v \in Accounts : RemoveRelayer(Root, v)
    \/ \E v \in Accounts, h \in BOOLEAN :
          AcknowledgeProposal(Signed(v), 1, 1, "r1", Transfer, h)
    \/ \E v \in Accounts, h \in BOOLEAN :
          RejectProposal(Signed(v), 1, 1, "r1", Transfer, h)
    \/ \E v \in Accounts, h \in BOOLEAN : EvalVoteState(Signed(v), 1, 1, Transfer, h)

SpecQuorum == Init /\ [][NextQuorum]_vars

\* mock.rs, build_with(1, "r1", Method): the threshold of the tests, the three
\* relayers, the source chain whitelisted and the resource registered.
InitConfigured ==
    /\ ChainNonces = [c \in ChainIds |-> IF c = 1 THEN Some(0) ELSE NoneVal]
    /\ RelayerThreshold = TEST_THRESHOLD
    /\ Relayers = {RELAYER_A, RELAYER_B, RELAYER_C}
    /\ RelayerCount = 3
    /\ Votes = [k \in Keys |-> NoneVal]
    /\ Resources = [r \in ResourceIds |-> IF r = "r1" THEN Some(Method) ELSE NoneVal]
    /\ blockNumber = 1
    /\ op = "set_resource"
    /\ result = "Ok"
    /\ events = <<>>
    /\ dispatched = <<>>
    /\ executed = [k \in Keys |-> 0]
    /\ emitted = [c \in ChainIds |-> <<>>]
    /\ derive_args = NoneVal
    /\ derive_ret = NoneVal
    /\ complete_args = NoneVal
    /\ complete_ret = NoneVal

\* The configured bridge of the tests: the three relayers vote on two
\* proposals that carry the same source chain and nonce and different calls.
NextCalls ==
    \/ \E v \in Accounts, p \in Calls, h \in BOOLEAN :
          AcknowledgeProposal(Signed(v), 1, 1, "r1", p, h)
    \/ \E v \in Accounts, p \in Calls, h \in BOOLEAN :
          RejectProposal(Signed(v), 1, 1, "r1", p, h)
    \/ \E v \in Accounts, p \in Calls, h \in BOOLEAN :
          EvalVoteState(Signed(v), 1, 1, p, h)

SpecCalls == InitConfigured /\ [][NextCalls]_vars

\* The outbound side from genesis: two destinations that can be whitelisted,
\* the local chain that cannot, the three transfer functions, a resource
\* that is set and removed, and a relayer whose votes approve and dispatch
\* a proposal in between.
NextOutbound ==
    \/ \E c \in ChainIds : WhitelistChain(Root, c)
    \/ \E d \in ChainIds : TransferFungible(d, "r1")
    \/ \E d \in ChainIds : TransferNonfungible(d, "r1")
    \/ \E d \in ChainIds : TransferGeneric(d, "r2")
    \/ SetResource(Root, "r1")
    \/ RemoveResource(Root, "r1")
    \/ AddRelayer(Root, RELAYER_A)
    \/ AcknowledgeProposal(Signed(RELAYER_A), 1, 1, "r1", Remark, TRUE)

SpecOutbound == Init /\ [][NextOutbound]_vars

\* example-pallet: remark called as an extrinsic of its own
ExampleRemark(origin) ==
    /\ op' = "remark"
    /\ Commit(dispatch(Ctx, Remark, origin, TRUE))

Origins == {Root, NoOrigin, Signed(TestUserId), Signed(RELAYER_A), Signed(account_id)}

\* The origin checks from genesis: the admin calls and the example pallet's
\* remark under every kind of origin, with a relayer whose vote leaves a
\* proposal in storage.
NextOrigins ==
    \/ \E o \in Origins, t \in 0..MaxThreshold : SetThreshold(o, t)
    \/ \E o \in Origins : SetResource(o, "r1")
    \/ \E o \in Origins : RemoveResource(o, "r1")
    \/ \E o \in Origins, c \in {1, LocalChainId} : WhitelistChain(o, c)
    \/ \E o \in Origins, v \in {RELAYER_A, RELAYER_B} : AddRelayer(o, v)
    \/ \E o \in Origins, v \in {RELAYER_A, RELAYER_B} : RemoveRelayer(o, v)
    \/ \E o \in Origins : ExampleRemark(o)
    \/ AcknowledgeProposal(Signed(RELAYER_A), 1, 1, "r1", Remark, TRUE)

SpecOrigins == Init /\ [][NextOrigins]_vars

\* The configured bridge of the tests with its resource registry changing:
\* one resource registered at the start and one never set, both set and
\* removed by root, and relayers voting under either resource id.
NextResources ==
    \/ \E r \in ResourceIds : SetResource(Root, r)
    \/ \E r \in ResourceIds : RemoveResource(Root, r)
    \/ \E v \in {RELAYER_A, RELAYER_B}, r \in ResourceIds, h \in BOOLEAN :
          AcknowledgeProposal(Signed(v), 1, 1, r, Transfer, h)
    \/ \E v \in {RELAYER_A, RELAYER_B}, r \in ResourceIds, h \in BOOLEAN :
          RejectProposal(Signed(v), 1, 1, r, Transfer, h)

SpecResources == InitConfigured /\ [][NextResources]_vars

\* The chain bytes and the ids given to derive_resource_id: every length
\* up to MaxIdLen, with bytes that differ from place to place.
ChainBytes == {0, 1, LocalChainId, 255}
IdInputs ==
    {[i \in 1..n |-> (a + m * i) % 256] : n \in 0..MaxIdLen, a \in {0, 1, 255}, m \in {0, 1, 7}}

InitDerive ==
    /\ ChainNonces = [c \in ChainIds |-> NoneVal]
    /\ RelayerThreshold = DEFAULT_RELAYER_THRESHOLD
    /\ Relayers = {}
    /\ RelayerCount = 0
    /\ Votes = [k \in Keys |-> NoneVal]
    /\ Resources = [r \in ResourceIds |-> NoneVal]
    /\ blockNumber = 1
    /\ op = "genesis"
    /\ result = "Ok"
    /\ events = <<>>
    /\ dispatched = <<>>
    /\ executed = [k \in Keys |-> 0]
    /\ emitted = [c \in ChainIds |-> <<>>]
    /\ derive_args \in {<<chain, id>> : chain \in ChainBytes, id \in IdInputs}
    /\ derive_ret = NoneVal
    /\ complete_args = NoneVal
    /\ complete_ret = NoneVal

DeriveResourceId ==
    /\ derive_ret = NoneVal
    /\ derive_ret' = Some(derive_resource_id(derive_args[1], derive_args[2]))
    /\ UNCHANGED <<storage, blockNumber, op, result, events, dispatched, executed,
                   emitted, derive_args, complete_args, complete_ret>>

NextDerive == DeriveResourceId

SpecDerive == InitDerive /\ [][NextDerive]_vars

\* A bridge set up by its admin and then left alone: any threshold from 1
\* and any set of relayers that can reach it, the source chain whitelisted
\* and the resource registered (set_threshold, add_relayer, whitelist_chain
\* and set_resource from genesis, as in mock.rs build_with).
InitSettled ==
    /\ ChainNonces = [c \in ChainIds |-> IF c = 1 THEN Some(0) ELSE NoneVal]
    /\ RelayerThreshold \in 1..MaxThreshold
    /\ Relayers \in {R \in SUBSET Accounts : Cardinality(R) >= RelayerThreshold}
    /\ RelayerCount = Cardinality(Relayers)
    /\ Votes = [k \in Keys |-> NoneVal]
    /\ Resources = [r \in ResourceIds |-> IF r = "r1" THEN Some(Method) ELSE NoneVal]
    /\ blockNumber = 1
    /\ op = "set_resource"
    /\ result = "Ok"
    /\ events = <<>>
    /\ dispatched = <<>>
    /\ executed = [k \in Keys |-> 0]
    /\ emitted = [c \in ChainIds |-> <<>>]
    /\ derive_args = NoneVal
    /\ derive_ret = NoneVal
    /\ complete_args = NoneVal
    /\ complete_ret = NoneVal

\* The settled bridge: the accounts vote on one proposal and evaluate it
\* while the blocks pass; no admin call changes the threshold or the relayers.
NextSettled ==
    \/ \E v \in Accounts, h \in BOOLEAN :
          AcknowledgeProposal(Signed(v), 1, 1, "r1", Transfer, h)
    \/ \E v \in Accounts, h \in BOOLEAN :
          RejectProposal(Signed(v), 1, 1, "r1", Transfer, h)
    \/ \E v \in Accounts, h \in BOOLEAN : EvalVoteState(Signed(v), 1, 1, Transfer, h)
    \/ \E b \in BlockNumbers : SetBlockNumber(b)

SpecSettled == InitSettled /\ [][NextSettled]_vars

\* The failures of the bridge from genesis: the admin calls under the root
\* origin and under a relayer's, with a zero threshold and the local chain
\* among their arguments; votes and evaluations on a proposal that carries
\* the bridge's own set_threshold, which the bridge account may not call;
\* outbound transfers to a chain that is never whitelisted; and the blocks
\* of a proposal's lifetime.
NextErrors ==
    \/ \E o \in {Root, Signed(RELAYER_A)}, t \in 0..MaxThreshold : SetThreshold(o, t)
    \/ \E o \in {Root, Signed(RELAYER_A)} : SetResource(o, "r1")
    \/ \E o \in {Root, Signed(RELAYER_A)} : RemoveResource(o, "r1")
    \/ \E o \in {Root, Signed(RELAYER_A)}, c \in {1, LocalChainId} : WhitelistChain(o, c)
    \/ \E o \in {Root, Signed(RELAYER_A)}, v \in {RELAYER_A, RELAYER_B} : AddRelayer(o, v)
    \/ \E o \in {Root, Signed(RELAYER_A)}, v \in {RELAYER_A, RELAYER_B} : RemoveRelayer(o, v)
    \/ \E o \in {Root, Signed(RELAYER_A), Signed(RELAYER_B)} :
          AcknowledgeProposal(o, 1, 1, "r1", BridgeSetThreshold, TRUE)
    \/ \E o \in {Root, Signed(RELAYER_A), Signed(RELAYER_B)} :
          RejectProposal(o, 1, 1, "r1", BridgeSetThreshold, TRUE)
    \/ \E o \in {Root, Signed(RELAYER_A)} : EvalVoteState(o, 1, 1, BridgeSetThreshold, TRUE)
    \/ TransferFungible(2, "r1")
    \/ TransferNonfungible(2, "r1")
    \/ TransferGeneric(2, "r1")
    \/ \E b \in BlockNumbers : SetBlockNumber(b)

SpecErrors == Init /\ [][NextErrors]_vars

\* The hashes given to transfer_hash, as their bytes
Hashes == {[i \in 1..32 |-> 0], [i \in 1..32 |-> (7 * i) % 256]}

TransferHash(origin, hash, dest_id) ==
    /\ unwrap_or_default(ChainNonces[dest_id]) < MaxNonce
    /\ op' = "transfer_hash"
    /\ Commit(transfer_hash(Ctx, origin, hash, dest_id))

\* The example pallet's transfer_hash from genesis, under a signed origin and
\* under root, to chains that the admin whitelists or has not whitelisted.
NextExample ==
    \/ \E c \in ChainIds : WhitelistChain(Root, c)
    \/ \E o \in {Signed(TestUserId), Root}, x \in Hashes, d \in ChainIds :
          TransferHash(o, x, d)

SpecExample == Init /\ [][NextExample]_vars

\* The vote lists, statuses, thresholds and relayer counts given to
\* try_to_complete: every list of up to MaxVotes votes on either side, under
\* every status, with the threshold and the count anywhere from 0 upwards.
VoteLists == UNION {[1..n -> {RELAYER_A, RELAYER_B}] : n \in 0..MaxVotes}
CompleteInputs ==
    {<<[votes_for |-> f, votes_against |-> a, status |-> st, expiry |-> ProposalLifetime],
       threshold, total>> :
        f \in VoteLists, a \in VoteLists, st \in {Initiated, Approved, Rejected},
        threshold \in 0..(MaxThreshold + 1), total \in 0..MaxVotes}

InitComplete ==
    /\ ChainNonces = [c \in ChainIds |-> NoneVal]
    /\ RelayerThreshold = DEFAULT_RELAYER_THRESHOLD
    /\ Relayers = {}
    /\ RelayerCount = 0
    /\ Votes = [k \in Keys |-> NoneVal]
    /\ Resources = [r \in ResourceIds |-> NoneVal]
    /\ blockNumber = 1
    /\ op = "genesis"
    /\ result = "Ok"
    /\ events = <<>>
    /\ dispatched = <<>>
    /\ executed = [k \in Keys |-> 0]
    /\ emitted = [c \in ChainIds |-> <<>>]
    /\ derive_args = NoneVal
    /\ derive_ret = NoneVal
    /\ complete_args \in CompleteInputs
    /\ complete_ret = NoneVal

TryToComplete ==
    /\ complete_ret = NoneVal
    /\ complete_ret' = Some(<<try_to_complete(complete_args[1], complete_args[2], complete_args[3]),
                              completed(complete_args[1], complete_args[2], complete_args[3])>>)
    /\ UNCHANGED <<storage, blockNumber, op, result, events, dispatched, executed,
                   emitted, derive_args, derive_ret, complete_args>>

NextComplete == TryToComplete

SpecComplete == InitComplete /\ [][NextComplete]_vars

-----------------------------------------------------------------------------
(* Notions the properties share *)

StatusOf(o) == IF o = NoneVal THEN "Absent" ELSE unwrap(o).status

Terminal(o) == StatusOf(o) \in {Approved, Rejected}

Range(seq) == {seq[i] : i \in 1..Len(seq)}

NoDuplicates(seq) == \A i, j \in 1..Len(seq) : seq[i] = seq[j] => i = j

VoteCalls == {"acknowledge_proposal", "reject_proposal"}

\* The outcome, in the current state, of a vote by who on the proposal k
VoteOutcome(in_favour, who, k, r_id, hostOk) ==
    IF in_favour
    THEN acknowledge_proposal(Ctx, blockNumber, Signed(who), k[2], k[1], r_id, k[3], hostOk)
    ELSE reject_proposal(Ctx, blockNumber, Signed(who), k[2], k[1], r_id, k[3], hostOk)

\* The outcome, in the current state, of eval_vote_state by who on the proposal k
EvalOutcome(who, k, hostOk) ==
    eval_vote_state(Ctx, blockNumber, Signed(who), k[2], k[1], k[3], hostOk)

Admitted(who, k, r_id) ==
    is_relayer(Store, who) /\ chain_whitelisted(Store, k[1]) /\ resource_exists(Store, r_id)

Unchanged(out) == out.s = Store /\ out.ev = <<>> /\ out.dl = <<>>

-----------------------------------------------------------------------------
(* C1: whenever the status of a proposal changes to Approved, in a vote or *)
(* in eval_vote_state, its votes_for holds at least as many accounts as    *)
(* the threshold stored at that moment.                                    *)
C1_ApprovedHasQuorum ==
    [][\A k \in Keys :
          (StatusOf(Votes[k]) # Approved /\ StatusOf(Votes'[k]) = Approved)
          => Len(unwrap(Votes'[k]).votes_for) >= RelayerThreshold']_vars

\* A for, B against, C for under threshold 2: approved by the third vote.
C1_Witness ==
    \E k \in Keys :
        /\ StatusOf(Votes[k]) = Approved
        /\ <<"ProposalApproved", k[1], k[2]>> \in Range(events)
        /\ RelayerThreshold = 2
        /\ Len(unwrap(Votes[k]).votes_for) = 2
        /\ Len(unwrap(Votes[k]).votes_against) = 1

(* C2: over any sequence of extrinsics the call of a proposal key is       *)
(* dispatched with a successful result at most once.                       *)
C2_DispatchedAtMostOnce == \A k \in Keys : executed[k] <= 1

\* The call has run, and a later attempt on its proposal has been refused.
C2_Witness ==
    \E k \in Keys :
        /\ executed[k] = 1
        /\ op = "eval_vote_state"
        /\ result = "ProposalAlreadyComplete"

(* C3: once a proposal is Approved or Rejected its record never changes,   *)
(* and every acknowledge_proposal, reject_proposal and eval_vote_state on  *)
(* its key fails and writes nothing, with ProposalAlreadyComplete when the *)
(* checks that come before (relayer, chain, resource) pass.                *)
C3_TerminalAbsorbing ==
    [][\A k \in Keys :
          Terminal(Votes[k]) =>
            /\ Votes'[k] = Votes[k]
            /\ \A who \in Accounts, h \in BOOLEAN :
                 /\ EvalOutcome(who, k, h).res = "ProposalAlreadyComplete"
                 /\ Unchanged(EvalOutcome(who, k, h))
                 /\ \A f \in BOOLEAN, r \in ResourceIds :
                      LET out == VoteOutcome(f, who, k, r, h)
                      IN  /\ out.res # "Ok"
                          /\ Unchanged(out)
                          /\ Admitted(who, k, r) => out.res = "ProposalAlreadyComplete"]_vars

\* A relayer's vote on a terminal proposal has just been refused.
C3_Witness ==
    \E k \in Keys :
        /\ Terminal(Votes[k])
        /\ op \in VoteCalls
        /\ result = "ProposalAlreadyComplete"

(* C4: in every stored proposal votes_for and votes_against hold no        *)
(* account twice and share none; a relayer who has voted on an Initiated,  *)
(* unexpired proposal and votes again, either way, gets                    *)
(* RelayerAlreadyVoted and nothing is written.                             *)
C4_OneVotePerRelayer ==
    \A k \in Keys :
        Votes[k] # NoneVal =>
          LET v == unwrap(Votes[k])
          IN  /\ NoDuplicates(v.votes_for)
              /\ NoDuplicates(v.votes_against)
              /\ Range(v.votes_for) \cap Range(v.votes_against) = {}
              /\ \A who \in Range(v.votes_for) \cup Range(v.votes_against),
                    f, h \in BOOLEAN, r \in ResourceIds :
                   (v.status = Initiated /\ v.expiry > blockNumber /\ Admitted(who, k, r))
                   => /\ VoteOutcome(f, who, k, r, h).res = "RelayerAlreadyVoted"
                      /\ Unchanged(VoteOutcome(f, who, k, r, h))

\* A second vote has just been refused on a proposal that is still open.
C4_Witness ==
    \E k \in Keys :
        /\ StatusOf(Votes[k]) = Initiated
        /\ unwrap(Votes[k]).votes_for # <<>>
        /\ unwrap(Votes[k]).votes_against # <<>>
        /\ op \in VoteCalls
        /\ result = "RelayerAlreadyVoted"

(* C5: whenever the status of a proposal changes to Rejected, the relayer  *)
(* count N and the threshold K stored at that moment satisfy N >= K and    *)
(* |votes_against| + K > N.                                                *)
C5_RejectedOutOfReach ==
    [][\A k \in Keys :
          (StatusOf(Votes[k]) # Rejected /\ StatusOf(Votes'[k]) = Rejected)
          => /\ RelayerCount' >= RelayerThreshold'
             /\ Len(unwrap(Votes'[k]).votes_against) + RelayerThreshold' > RelayerCount']_vars

\* A for, B and C against under threshold 2 of 3: rejected by the third vote.
C5_Witness ==
    \E k \in Keys :
        /\ StatusOf(Votes[k]) = Rejected
        /\ <<"ProposalRejected", k[1], k[2]>> \in Range(events)
        /\ RelayerThreshold = 2
        /\ RelayerCount = 3
        /\ Len(unwrap(Votes[k]).votes_for) = 1
        /\ Len(unwrap(Votes[k]).votes_against) = 2

C7_VoteAdmission ==
    \A who \in Accounts, k \in Keys, r \in ResourceIds, f, h \in BOOLEAN :
        LET out == VoteOutcome(f, who, k, r, h)
        IN  /\ out.s.Votes # Votes => Admitted(who, k, r)
            /\ ~is_relayer(Store, who) => (out.res = "MustBeRelayer" /\ Unchanged(out))

\* On a bridge with a relayer, a chain and a resource, an account outside
\* the relayer set has just tried to vote.
C7_Witness ==
    /\ op \in VoteCalls
    /\ result = "MustBeRelayer"
    /\ Relayers # {}
    /\ chain_whitelisted(Store, 1)
    /\ resource_exists(Store, "r1")
    /\ \A k \in Keys : Votes[k] = NoneVal

(* C8: a proposal created at block b has expiry b + ProposalLifetime and   *)
(* keeps it; while it is Initiated, at every block >= expiry each vote and *)
(* each eval_vote_state on it fails and writes nothing, with               *)
(* ProposalExpired when the checks that come before (relayer, chain,       *)
(* resource) pass, and no call fails with ProposalExpired at a block       *)
(* < expiry.                                                               *)
C8_Expiry ==
    [][\A k \in Keys :
          /\ (Votes[k] = NoneVal /\ Votes'[k] # NoneVal)
             => unwrap(Votes'[k]).expiry = blockNumber + ProposalLifetime
          /\ Votes[k] # NoneVal
             => (Votes'[k] # NoneVal /\ unwrap(Votes'[k]).expiry = unwrap(Votes[k]).expiry)
          /\ StatusOf(Votes[k]) = Initiated
             => \A who \in Accounts, h \in BOOLEAN :
                  /\ EvalOutcome(who, k, h).res = "ProposalExpired"
                       <=> blockNumber >= unwrap(Votes[k]).expiry
                  /\ \A f \in BOOLEAN, r \in ResourceIds :
                       LET out == VoteOutcome(f, who, k, r, h)
                       IN  /\ out.res = "ProposalExpired"
                               => blockNumber >= unwrap(Votes[k]).expiry
                           /\ blockNumber >= unwrap(Votes[k]).expiry
                               => (out.res # "Ok" /\ Unchanged(out))
                           /\ (Admitted(who, k, r) /\ blockNumber >= unwrap(Votes[k]).expiry)
                               => out.res = "ProposalExpired"]_vars

\* A vote has just been refused at the very block of the expiry.
C8_Witness ==
    \E k \in Keys :
        /\ StatusOf(Votes[k]) = Initiated
        /\ unwrap(Votes[k]).expiry = blockNumber
        /\ op \in VoteCalls
        /\ result = "ProposalExpired"

(* C9: for every destination the transfer events of the three transfer     *)
(* functions together carry the nonces 1, 2, 3, ... in this order, the     *)
(* stored nonce of a whitelisted chain is the nonce of its last transfer   *)
(* event (0 if none), and a successful transfer deposits one event.        *)
C9_OutboundNonces ==
    /\ \A c \in ChainIds :
         /\ emitted[c] = [i \in 1..Len(emitted[c]) |-> i]
         /\ chain_whitelisted(Store, c) => unwrap(ChainNonces[c]) = Len(emitted[c])
         /\ ~chain_whitelisted(Store, c) => emitted[c] = <<>>
    /\ (op \in {"transfer_fungible", "transfer_nonfungible", "transfer_generic"}
        /\ result = "Ok")
       => /\ Len(events) = 1
          /\ events[1][1] \in TransferEvents
          /\ events[1][3] = unwrap(ChainNonces[events[1][2]])

\* Two transfers to chain 1 and one to chain 2, of different kinds.
C9_Witness ==
    /\ emitted[1] = <<1, 2>>
    /\ emitted[2] = <<1>>
    /\ op = "transfer_nonfungible"
    /\ \E k \in Keys : executed[k] = 1

(* C10: a transfer to a destination that is not whitelisted fails with     *)
(* ChainNotWhitelisted, deposits no event and writes nothing.              *)
C10_TransferNeedsWhitelist ==
    \A d \in ChainIds, r \in ResourceIds :
        ~chain_whitelisted(Store, d) =>
          /\ transfer_fungible(Ctx, d, r, Recipient, Amount).res = "ChainNotWhitelisted"
          /\ Unchanged(transfer_fungible(Ctx, d, r, Recipient, Amount))
          /\ transfer_nonfungible(Ctx, d, r, TokenId, Recipient, Metadata).res
               = "ChainNotWhitelisted"
          /\ Unchanged(transfer_nonfungible(Ctx, d, r, TokenId, Recipient, Metadata))
          /\ transfer_generic(Ctx, d, r, Metadata).res = "ChainNotWhitelisted"
          /\ Unchanged(transfer_generic(Ctx, d, r, Metadata))

\* A transfer to chain 2 has just been refused while chain 1 is whitelisted.
C10_Witness ==
    /\ op = "transfer_generic"
    /\ result = "ChainNotWhitelisted"
    /\ events = <<>>
    /\ chain_whitelisted(Store, 1)
    /\ ChainNonces[2] = NoneVal

\* The number of votes in a Votes entry
VoteCount(o) ==
    IF o = NoneVal THEN 0
    ELSE Len(unwrap(o).votes_for) + Len(unwrap(o).votes_against)

(* C11, as claimed: when the call of a newly approved proposal returns an  *)
(* error, the extrinsic has deposited ProposalFailed(src_chain, nonce) and *)
(* no ProposalSucceeded, and returns the error of the call.                *)
C11_FailureReported ==
    \A i \in 1..Len(dispatched) :
        dispatched[i][5] # "Ok" =>
          /\ <<"ProposalFailed", dispatched[i][1], dispatched[i][2]>> \in Range(events)
          /\ <<"ProposalSucceeded", dispatched[i][1], dispatched[i][2]>> \notin Range(events)
          /\ result = dispatched[i][5]

(* C12: when the dispatch of a proposal's call fails, the extrinsic leaves *)
(* the proposal stored as Approved together with the vote that triggered   *)
(* it; from then on the record and its count of executions never change,   *)
(* and every vote or eval_vote_state on the key is refused, with           *)
(* ProposalAlreadyComplete once the relayer, chain and resource checks     *)
(* pass, and dispatches nothing.                                           *)
C12_FailedStaysApproved ==
    [][\A k \in Keys :
          /\ (\E i \in 1..Len(dispatched') :
                /\ <<dispatched'[i][1], dispatched'[i][2], dispatched'[i][3]>> = k
                /\ dispatched'[i][5] # "Ok")
             => /\ StatusOf(Votes'[k]) = Approved
                /\ executed'[k] = 0
                /\ op' \in VoteCalls => VoteCount(Votes'[k]) = VoteCount(Votes[k]) + 1
          /\ (StatusOf(Votes[k]) = Approved /\ executed[k] = 0)
             => /\ Votes'[k] = Votes[k]
                /\ executed'[k] = 0
                /\ \A who \in Accounts, h \in BOOLEAN :
                     /\ EvalOutcome(who, k, h).res = "ProposalAlreadyComplete"
                     /\ EvalOutcome(who, k, h).dl = <<>>
                     /\ \A f \in BOOLEAN, r \in ResourceIds :
                          LET out == VoteOutcome(f, who, k, r, h)
                          IN  /\ out.res # "Ok"
                              /\ out.dl = <<>>
                              /\ Admitted(who, k, r)
                                  => out.res = "ProposalAlreadyComplete"]_vars

\* The dispatch failed earlier, and a later evaluation has just been refused.
C12_Witness ==
    \E k \in Keys :
        /\ StatusOf(Votes[k]) = Approved
        /\ executed[k] = 0
        /\ op = "eval_vote_state"
        /\ result = "ProposalAlreadyComplete"

(* C13: a vote that approves a proposal whose call then succeeds deposits, *)
(* in this order, its vote event, ProposalApproved, the events of the      *)
(* call and ProposalSucceeded; and ProposalSucceeded never comes without   *)
(* ProposalApproved of the same proposal before it in the same extrinsic.  *)
C13_EventOrder ==
    /\ (op \in VoteCalls /\ result = "Ok" /\ dispatched # <<>>)
       => LET d == dispatched[1]
              v == unwrap(Votes[<<d[1], d[2], d[3]>>])
              vote == IF op = "acknowledge_proposal"
                      THEN <<"VoteFor", d[1], d[2], v.votes_for[Len(v.votes_for)]>>
                      ELSE <<"VoteAgainst", d[1], d[2], v.votes_against[Len(v.votes_against)]>>
          IN  events = <<vote, <<"ProposalApproved", d[1], d[2]>>>>
                       \o (IF d[3] = Remark THEN <<<<"Remark">>>> ELSE <<>>)
                       \o <<<<"ProposalSucceeded", d[1], d[2]>>>>
    /\ \A i \in 1..Len(events) :
         events[i][1] = "ProposalSucceeded"
         => \E j \in 1..(i - 1) : events[j] = <<"ProposalApproved", events[i][2], events[i][3]>>

\* The second vote for the remark has approved it, and the remark has run.
C13_Witness ==
    /\ op = "acknowledge_proposal"
    /\ result = "Ok"
    /\ Len(events) = 4
    /\ events[1][1] = "VoteFor"
    /\ events[3] = <<"Remark">>
    /\ events[4][1] = "ProposalSucceeded"

(* C14: the step that resolves a proposal to Rejected stores the status,   *)
(* deposits ProposalRejected(src_chain, nonce) last, right after the vote  *)
(* event when a vote triggered it, and dispatches nothing; the call of a   *)
(* Rejected proposal has never run and never runs.                         *)
C14_RejectedNeverRuns ==
    [][\A k \in Keys :
          /\ (StatusOf(Votes[k]) # Rejected /\ StatusOf(Votes'[k]) = Rejected)
             => /\ dispatched' = <<>>
                /\ events' # <<>>
                /\ events'[Len(events')] = <<"ProposalRejected", k[1], k[2]>>
                /\ op' \in VoteCalls
                   => /\ Len(events') = 2
                      /\ events'[1][1] \in {"VoteFor", "VoteAgainst"}
                      /\ events'[1][2] = k[1] /\ events'[1][3] = k[2]
                /\ op' = "eval_vote_state" => Len(events') = 1
          /\ StatusOf(Votes[k]) = Rejected
             => /\ StatusOf(Votes'[k]) = Rejected
                /\ executed[k] = 0 /\ executed'[k] = 0
                /\ \A i \in 1..Len(dispatched') :
                     <<dispatched'[i][1], dispatched'[i][2], dispatched'[i][3]>> # k]_vars

\* A vote on a Rejected proposal has just been refused; its call never ran.
C14_Witness ==
    \E k \in Keys :
        /\ StatusOf(Votes[k]) = Rejected
        /\ executed[k] = 0
        /\ op \in VoteCalls
        /\ result = "ProposalAlreadyComplete"

(* C15: the relayer counter is the size of the relayer set; add_relayer   *)
(* of a present account fails with RelayerAlreadyExists and                *)
(* remove_relayer of an absent one with RelayerInvalid, writing nothing;   *)
(* a successful add or remove changes the set by that account and the      *)
(* counter by one.                                                         *)
C15_RelayerCount ==
    /\ RelayerCount = Cardinality(Relayers)
    /\ \A v \in Accounts :
         LET add == add_relayer(Ctx, Root, v)
             rem == remove_relayer(Ctx, Root, v)
         IN  IF v \in Relayers
             THEN /\ add.res = "RelayerAlreadyExists" /\ Unchanged(add)
                  /\ rem.res = "Ok"
                  /\ rem.s = [Store EXCEPT !.Relayers = Relayers \ {v},
                                           !.RelayerCount = RelayerCount - 1]
                  /\ rem.s.RelayerCount >= 0
             ELSE /\ rem.res = "RelayerInvalid" /\ Unchanged(rem)
                  /\ add.res = "Ok"
                  /\ add.s = [Store EXCEPT !.Relayers = Relayers \cup {v},
                                           !.RelayerCount = RelayerCount + 1]

\* With one relayer left, the removal of an absent account has been refused.
C15_Witness ==
    /\ op = "remove_relayer"
    /\ result = "RelayerInvalid"
    /\ RelayerCount = 1
    /\ Relayers = {RELAYER_B}

AdminOrigins == {Root, Signed(TestUserId)}

C18_AdminOnly ==
    \A o \in Origins \ AdminOrigins :
        /\ \A k \in 0..MaxThreshold :
             set_threshold(Ctx, o, k).res # "Ok" /\ Unchanged(set_threshold(Ctx, o, k))
        /\ \A r \in ResourceIds :
             /\ set_resource(Ctx, o, r, Method).res # "Ok"
             /\ Unchanged(set_resource(Ctx, o, r, Method))
             /\ remove_resource(Ctx, o, r).res # "Ok"
             /\ Unchanged(remove_resource(Ctx, o, r))
        /\ \A c \in ChainIds :
             whitelist_chain(Ctx, o, c).res # "Ok" /\ Unchanged(whitelist_chain(Ctx, o, c))
        /\ \A v \in Accounts :
             /\ add_relayer(Ctx, o, v).res # "Ok"
             /\ Unchanged(add_relayer(Ctx, o, v))
             /\ remove_relayer(Ctx, o, v).res # "Ok"
             /\ Unchanged(remove_relayer(Ctx, o, v))

\* On a bridge with a relayer and a proposal, set_threshold has been refused.
C18_Witness ==
    /\ op = "set_threshold"
    /\ result = "BadOrigin"
    /\ RELAYER_A \in Relayers
    /\ Votes[<<1, 1, Remark>>] # NoneVal

(* C19: EnsureBridge accepts an origin exactly when it is the signed       *)
(* origin of account_id(); remark, which demands it, succeeds for that     *)
(* origin and fails with BadOrigin for root, unsigned and other signed     *)
(* origins.                                                                *)
C19_EnsureBridge ==
    /\ \A o \in Origins :
         /\ EnsureBridge_try_origin(o) <=> o = Signed(BridgeAccount)
         /\ dispatch(Ctx, Remark, o, TRUE).res
              = IF o = Signed(BridgeAccount) THEN "Ok" ELSE "BadOrigin"
    /\ op = "remark" => \/ result = "Ok" /\ events = << <<"Remark">> >>
                        \/ result = "BadOrigin" /\ events = <<>>

\* remark has just been refused.
C19_Witness ==
    /\ op = "remark"
    /\ result = "BadOrigin"
    /\ events = <<>>

(* C20: every call the bridge dispatches runs under Signed(account_id()),  *)
(* the origin of the bridge account and of no voter or evaluator.          *)
C20_DispatchOrigin ==
    \A i \in 1..Len(dispatched) :
        /\ dispatched[i][4] = Signed(account_id)
        /\ \A v \in Accounts \cup {TestUserId} : dispatched[i][4] # Signed(v)

\* eval_vote_state by a relayer has approved the proposal and run its call.
C20_Witness ==
    /\ op = "eval_vote_state"
    /\ result = "Ok"
    /\ dispatched # <<>>
    /\ dispatched[1][5] = "Ok"

(* C23: derive_resource_id(chain, id) returns 32 bytes whose last is       *)
(* chain, whose m bytes before it are the first m = min(|id|, 31) bytes of *)
(* id in their order, and whose bytes before those are all zero.           *)
C23_DeriveResourceId ==
    derive_ret # NoneVal =>
      LET r == unwrap(derive_ret)
          chain == derive_args[1]
          id == derive_args[2]
          m == IF Len(id) < 31 THEN Len(id) ELSE 31
      IN  /\ Len(r) = 32
          /\ r[31 + 1] = chain
          /\ \A j \in 0..(m - 1) : r[31 - m + j + 1] = id[j + 1]
          /\ \A j \in 0..(30 - m) : r[j + 1] = 0

\* An id of 33 different bytes has been cut to its first 31.
C23_Witness ==
    /\ derive_ret # NoneVal
    /\ Len(derive_args[2]) = 33
    /\ derive_args[2][1] # derive_args[2][3]
    /\ unwrap(derive_ret)[1] = derive_args[2][1]
    /\ unwrap(derive_ret)[32] = 255

(* C21: eval_vote_state on a key without a stored proposal fails with     *)
(* ProposalDoesNotExist and writes nothing; on a stored proposal it        *)
(* changes at most the status of that proposal.                            *)
C21_EvalOnlyStatus ==
    \A who \in Accounts, k \in Keys, h \in BOOLEAN :
        LET out == EvalOutcome(who, k, h)
        IN  IF Votes[k] = NoneVal
            THEN out.res = "ProposalDoesNotExist" /\ Unchanged(out)
            ELSE /\ out.s.Votes[k] # NoneVal
                 /\ out.s.Votes[k]
                      = Some([unwrap(Votes[k]) EXCEPT !.status = unwrap(out.s.Votes[k]).status])
                 /\ out.s = [Store EXCEPT !.Votes[k] = out.s.Votes[k]]

\* Before any vote, an evaluation by a relayer has been refused.
C21_Witness ==
    /\ op = "eval_vote_state"
    /\ result = "ProposalDoesNotExist"
    /\ Relayers # {}
    /\ \A k \in Keys : Votes[k] = NoneVal

(* C22: a vote by a relayer for a whitelisted chain under an r_id that is  *)
(* not registered fails with ResourceDoesNotExist and writes nothing; an   *)
(* r_id becomes registered only by a successful set_resource, which        *)
(* always registers it, and unregistered only by a successful              *)
(* remove_resource, which always unregisters it.                           *)
C22_ResourceRegistry ==
    [][\A r \in ResourceIds :
          /\ resource_exists(set_resource(Ctx, Root, r, Method).s, r)
          /\ ~resource_exists(remove_resource(Ctx, Root, r).s, r)
          /\ (Resources[r] = NoneVal /\ Resources'[r] # NoneVal)
             => (op' = "set_resource" /\ result' = "Ok")
          /\ (Resources[r] # NoneVal /\ Resources'[r] = NoneVal)
             => (op' = "remove_resource" /\ result' = "Ok")
          /\ ~resource_exists(Store, r)
             => \A who \in Accounts, k \in Keys, f, h \in BOOLEAN :
                  (is_relayer(Store, who) /\ chain_whitelisted(Store, k[1]))
                  => /\ VoteOutcome(f, who, k, r, h).res = "ResourceDoesNotExist"
                     /\ Unchanged(VoteOutcome(f, who, k, r, h))]_vars

\* The resource of an open proposal was removed, and the next vote refused.
C22_Witness ==
    /\ op \in VoteCalls
    /\ result = "ResourceDoesNotExist"
    /\ Resources["r1"] = NoneVal
    /\ StatusOf(Votes[<<1, 1, Transfer>>]) = Initiated

(* C24, as claimed: when a proposal becomes Rejected, its votes_for plus   *)
(* the accounts of the relayer set that have not voted on it are fewer     *)
(* than the threshold.                                                     *)
C24_QuorumOutOfReach ==
    [][\A k \in Keys :
          (StatusOf(Votes[k]) # Rejected /\ StatusOf(Votes'[k]) = Rejected)
          => LET v == unwrap(Votes'[k])
             IN  Len(v.votes_for)
                 + Cardinality(Relayers' \ (Range(v.votes_for) \cup Range(v.votes_against)))
                 < RelayerThreshold']_vars

(* C25, as claimed: while the threshold exceeds the relayer count no       *)
(* proposal becomes Approved and no call is dispatched.                    *)
C25_NoApprovalAboveCount ==
    [][RelayerThreshold' > RelayerCount'
       => /\ \A k \in Keys :
               StatusOf(Votes'[k]) = Approved => StatusOf(Votes[k]) = Approved
          /\ dispatched' = <<>>]_vars

IsPrefix(s, u) == Len(s) <= Len(u) /\ SubSeq(u, 1, Len(s)) = s

(* C26: a stored proposal stays stored in every later state, with the      *)
(* expiry it was created with and with vote lists that only grow at the    *)
(* end and are never both empty.                                           *)
C26_ProposalsPersist ==
    [][\A k \in Keys :
          Votes[k] # NoneVal =>
            /\ Votes'[k] # NoneVal
            /\ unwrap(Votes'[k]).expiry = unwrap(Votes[k]).expiry
            /\ IsPrefix(unwrap(Votes[k]).votes_for, unwrap(Votes'[k]).votes_for)
            /\ IsPrefix(unwrap(Votes[k]).votes_against, unwrap(Votes'[k]).votes_against)
            /\ VoteCount(Votes[k]) >= 1]_vars

\* Long after its approval the proposal is still stored and refuses a vote.
C26_Witness ==
    \E k \in Keys :
        /\ StatusOf(Votes[k]) = Approved
        /\ unwrap(Votes[k]).expiry <= blockNumber
        /\ blockNumber = ProposalLifetime + 1
        /\ op \in VoteCalls
        /\ result = "ProposalAlreadyComplete"

(* C27: block numbers never decrease, and an Initiated proposal whose      *)
(* expiry has been reached keeps its record unchanged in every later       *)
(* state and its call is never dispatched.                                 *)
C27_ExpiredStaysInitiated ==
    [][/\ blockNumber' >= blockNumber
       /\ \A k \in Keys :
            (StatusOf(Votes[k]) = Initiated /\ blockNumber >= unwrap(Votes[k]).expiry)
            => /\ Votes'[k] = Votes[k]
               /\ executed'[k] = executed[k]
               /\ \A i \in 1..Len(dispatched') :
                    <<dispatched'[i][1], dispatched'[i][2], dispatched'[i][3]>> # k]_vars

\* Enough votes_for for the present threshold, but the proposal has expired.
C27_Witness ==
    \E k \in Keys :
        /\ StatusOf(Votes[k]) = Initiated
        /\ blockNumber >= unwrap(Votes[k]).expiry
        /\ Len(unwrap(Votes[k]).votes_for) >= RelayerThreshold
        /\ op = "eval_vote_state"
        /\ result = "ProposalExpired"

(* C28: two votes from the same state that differ only in the registered   *)
(* r_id they pass have the same result, the same storage and the same      *)
(* events.                                                                 *)
C28_ResourceIdIgnored ==
    \A who \in Accounts, k \in Keys, f, h \in BOOLEAN, ra, rb \in ResourceIds :
        (resource_exists(Store, ra) /\ resource_exists(Store, rb))
        => VoteOutcome(f, who, k, ra, h) = VoteOutcome(f, who, k, rb, h)

\* With both resources registered, the second vote has approved the proposal.
C28_Witness ==
    /\ \A r \in ResourceIds : resource_exists(Store, r)
    /\ op = "acknowledge_proposal"
    /\ result = "Ok"
    /\ StatusOf(Votes[<<1, 1, Transfer>>]) = Approved

\* The error the admission of a vote reports, "" when it reports none
FirstFailingCheck(who, k, r_id) ==
    IF ~is_relayer(Store, who) THEN "MustBeRelayer"
    ELSE IF ~chain_whitelisted(Store, k[1]) THEN "ChainNotWhitelisted"
    ELSE IF ~resource_exists(Store, r_id) THEN "ResourceDoesNotExist"
    ELSE IF Terminal(Votes[k]) THEN "ProposalAlreadyComplete"
    ELSE IF Votes[k] # NoneVal /\ unwrap(Votes[k]).expiry <= blockNumber THEN "ProposalExpired"
    ELSE IF Votes[k] # NoneVal
            /\ who \in Range(unwrap(Votes[k]).votes_for) \cup Range(unwrap(Votes[k]).votes_against)
         THEN "RelayerAlreadyVoted"
    ELSE ""

AdmissionErrors ==
    {"MustBeRelayer", "ChainNotWhitelisted", "ResourceDoesNotExist",
     "ProposalAlreadyComplete", "ProposalExpired", "RelayerAlreadyVoted"}

(* C29: a vote reports the first failing check in the order MustBeRelayer, *)
(* ChainNotWhitelisted, ResourceDoesNotExist, ProposalAlreadyComplete,     *)
(* ProposalExpired, RelayerAlreadyVoted, and none of these errors when no  *)
(* check fails.                                                            *)
C29_AdmissionOrder ==
    \A who \in Accounts, k \in Keys, r \in ResourceIds, f, h \in BOOLEAN :
        LET out == VoteOutcome(f, who, k, r, h)
            e == FirstFailingCheck(who, k, r)
        IN  IF e = "" THEN out.res \notin AdmissionErrors
            ELSE out.res = e /\ Unchanged(out)

\* Both relayers voted for the approved proposal; one has just voted again.
C29_Witness ==
    \E k \in Keys :
        /\ StatusOf(Votes[k]) = Approved
        /\ Relayers = {RELAYER_A, RELAYER_B}
        /\ Range(unwrap(Votes[k]).votes_for) = {RELAYER_A, RELAYER_B}
        /\ op \in VoteCalls
        /\ result = "ProposalAlreadyComplete"

ApprovalPredicate(v, K) == Len(v.votes_for) >= K

RejectionPredicate(v, K, N) == N >= K /\ Len(v.votes_against) + K > N

(* C30, as claimed: with K >= 1 the proposal resolved in a step never      *)
(* satisfies both the approval predicate and the rejection predicate.      *)
C30_NeverBoth ==
    [][\A k \in Keys :
          (RelayerThreshold' >= 1 /\ ~Terminal(Votes[k]) /\ Terminal(Votes'[k]))
          => ~(/\ ApprovalPredicate(unwrap(Votes'[k]), RelayerThreshold')
               /\ RejectionPredicate(unwrap(Votes'[k]), RelayerThreshold', RelayerCount'))]_vars


-----------------------------------------------------------------------------
(* C31: try_to_complete returns Approved when votes_for holds at least     *)
(* threshold accounts; otherwise Rejected when total >= threshold and the  *)
(* votes against plus the threshold exceed total; otherwise Initiated.     *)
(* The approval is tested first, and self.status is set to the status      *)
(* returned unless that is Initiated, when self is left as it was.         *)
C31_TryToComplete ==
    complete_ret # NoneVal =>
      LET v == complete_args[1]
          K == complete_args[2]
          N == complete_args[3]
          reference == CASE Len(v.votes_for) >= K -> Approved
                         [] Len(v.votes_for) < K /\ N >= K /\ Len(v.votes_against) + K > N
                              -> Rejected
                         [] OTHER -> Initiated
      IN  /\ unwrap(complete_ret)[1] = reference
          /\ reference = Initiated => unwrap(complete_ret)[2] = v
          /\ reference # Initiated =>
                unwrap(complete_ret)[2] = [v EXCEPT !.status = reference]

\* Both tests hold and the approval wins
C31_Witness ==
    /\ complete_ret # NoneVal
    /\ Len(complete_args[1].votes_for) >= complete_args[2]
    /\ complete_args[2] > 0
    /\ complete_args[3] >= complete_args[2]
    /\ Len(complete_args[1].votes_against) + complete_args[2] > complete_args[3]
    /\ complete_args[1].status = Initiated
    /\ unwrap(complete_ret)[1] = Approved
    /\ unwrap(complete_ret)[2].status = Approved



-----------------------------------------------------------------------------
(* C32: no reject_proposal call leaves a proposal newly Approved or        *)
(* dispatches a call.                                                      *)
C32_RejectNeverExecutes ==
    [][op' = "reject_proposal" =>
         /\ dispatched' = <<>>
         /\ \A k \in Keys : StatusOf(Votes'[k]) = Approved => StatusOf(Votes[k]) = Approved]_vars

-----------------------------------------------------------------------------
\* The context of a bridge call that a dispatched call d makes while it runs:
\* the storage is the storage d was dispatched on.
ReentryCtx(d) == [s |-> d[6], ev |-> <<>>, dl |-> <<>>]

\* The accounts under which a dispatched call may call the bridge again
ReentryAccounts == Accounts \cup {account_id}

(* C33: a call is dispatched on storage that already holds its proposal's  *)
(* record as it is finally stored: status Approved, with the vote that     *)
(* triggered the resolution.  eval_vote_state on the same key made from    *)
(* within the dispatched call fails with ProposalAlreadyComplete, so does  *)
(* a vote of a relayer on it; neither changes the storage nor dispatches   *)
(* the proposal a second time.                                             *)
C33_StoredBeforeDispatch ==
    \A i \in 1..Len(dispatched) :
        LET d == dispatched[i]
            k == Key(d[1], d[2], d[3])
            cx == ReentryCtx(d)
        IN  /\ StatusOf(cx.s.Votes[k]) = Approved
            /\ cx.s.Votes[k] = Votes[k]
            /\ op \in VoteCalls =>
                  has_voted(unwrap(cx.s.Votes[k]), events[1][4])
            /\ \A who \in ReentryAccounts :
                  LET e == eval_vote_state(cx, blockNumber, Signed(who), d[2], d[1], d[3], TRUE)
                  IN  /\ e.res = "ProposalAlreadyComplete"
                      /\ e.s = cx.s /\ e.ev = <<>> /\ e.dl = <<>>
            /\ \A who \in ReentryAccounts, r_id \in ResourceIds, in_favour \in BOOLEAN :
                  LET v == IF in_favour
                           THEN acknowledge_proposal(cx, blockNumber, Signed(who),
                                                     d[2], d[1], r_id, d[3], TRUE)
                           ELSE reject_proposal(cx, blockNumber, Signed(who),
                                                d[2], d[1], r_id, d[3], TRUE)
                  IN  /\ v.res # "Ok"
                      /\ v.s = cx.s /\ v.ev = <<>> /\ v.dl = <<>>
                      /\ (is_relayer(cx.s, who) /\ resource_exists(cx.s, r_id))
                            => v.res = "ProposalAlreadyComplete"

\* A vote has approved a proposal and its call has been dispatched, with a
\* relayer left who has not voted and could vote from within the call
C33_Witness ==
    /\ op = "acknowledge_proposal"
    /\ Len(dispatched) = 1
    /\ dispatched[1][5] = "Ok"
    /\ \E who \in Relayers :
          /\ ~has_voted(unwrap(Votes[Key(1, 1, Transfer)]), who)
          /\ resource_exists(Store, "r1")



-----------------------------------------------------------------------------
(* C34: after a successful remove_resource of the resource "r1", and with  *)
(* no set_resource since, the next call records no vote given under "r1"   *)
(* and is no outbound transfer of "r1" that succeeds or deposits its       *)
(* transfer event.                                                         *)
C34_RemovedResourceRejected ==
    [][(op = "remove_resource" /\ result = "Ok" /\ ~resource_exists(Store, "r1")) =>
         /\ op' \in VoteCalls => Votes' = Votes
         /\ op' \in {"transfer_fungible", "transfer_nonfungible", "transfer_generic"} =>
               \A i \in 1..Len(events') :
                   ~(events'[i][1] \in TransferEvents /\ events'[i][4] = "r1")]_vars



-----------------------------------------------------------------------------
\* The signed accounts of the model: the relayers' and the admin's
SignedAccounts == Accounts \cup {TestUserId}

\* Is the record o left Initiated by the resolution rule under K and N?
StaysInitiated(o, K, N) ==
    /\ Len(unwrap(o).votes_for) < K
    /\ ~(N >= K /\ Len(unwrap(o).votes_against) + K > N)

(* C35: in every state, a vote or an eval_vote_state on a proposal that    *)
(* returns Ok leaves the proposal's stored status Initiated if and only if *)
(* its votes_for holds fewer accounts than the threshold and it is not the *)
(* case that the relayer count is at least the threshold and the votes     *)
(* against plus the threshold exceed the count, for the threshold and the  *)
(* count of that state.  When a stored proposal is Initiated and unexpired *)
(* with votes_for at or above the threshold, eval_vote_state by any signed *)
(* account stores it Approved and dispatches its call.                     *)
C35_ResolvedOnCurrentValues ==
    \A k \in Keys, who \in SignedAccounts, h \in BOOLEAN :
        /\ LET e == EvalOutcome(who, k, h)
           IN  /\ e.res = "Ok" =>
                     (StatusOf(e.s.Votes[k]) = Initiated
                        <=> StaysInitiated(e.s.Votes[k], RelayerThreshold, RelayerCount))
               /\ (/\ StatusOf(Votes[k]) = Initiated
                    /\ blockNumber < unwrap(Votes[k]).expiry
                    /\ Len(unwrap(Votes[k]).votes_for) >= RelayerThreshold)
                   => /\ StatusOf(e.s.Votes[k]) = Approved
                      /\ Len(e.dl) = 1
                      /\ Key(e.dl[1][1], e.dl[1][2], e.dl[1][3]) = k
                      /\ h => e.res = "Ok"
        /\ \A in_favour \in BOOLEAN, r_id \in ResourceIds :
              LET v == VoteOutcome(in_favour, who, k, r_id, h)
              IN  v.res = "Ok" =>
                    /\ v.s.RelayerThreshold = RelayerThreshold
                    /\ v.s.RelayerCount = RelayerCount
                    /\ StatusOf(v.s.Votes[k]) = Initiated
                          <=> StaysInitiated(v.s.Votes[k], RelayerThreshold, RelayerCount)

\* The threshold was lowered under the votes in favour of an open proposal,
\* and an eval_vote_state has then approved it and run its call
C35_Witness ==
    /\ op = "eval_vote_state"
    /\ result = "Ok"
    /\ Len(dispatched) = 1
    /\ StatusOf(Votes[Key(1, 1, Transfer)]) = Approved
    /\ Len(unwrap(Votes[Key(1, 1, Transfer)]).votes_for) = RelayerThreshold



-----------------------------------------------------------------------------
(* C36: with the threshold K and the N relayers fixed since before the     *)
(* first vote and K <= N, a proposal on which every relayer has voted is   *)
(* Approved or Rejected.  It is Approved exactly when votes_for reached K  *)
(* accounts while fewer than N - K + 1 had voted against, and Rejected     *)
(* exactly when N - K + 1 had voted against while fewer than K had voted   *)
(* in favour; the vote that completes either count is the last one taken.  *)
C36_Completeness ==
    LET o == Votes[Key(1, 1, Transfer)]
        K == RelayerThreshold
        N == RelayerCount
    IN  o # NoneVal =>
          LET f == Len(unwrap(o).votes_for)
              a == Len(unwrap(o).votes_against)
          IN  /\ (\A r \in Relayers : has_voted(unwrap(o), r)) => StatusOf(o) # Initiated
              /\ StatusOf(o) = Approved <=> (f = K /\ a < N - K + 1)
              /\ StatusOf(o) = Rejected <=> (a = N - K + 1 /\ f < K)
              /\ StatusOf(o) = Initiated <=> (f < K /\ a < N - K + 1)

\* Three relayers under threshold 2 have all voted, two of them against
C36_Witness ==
    /\ RelayerThreshold = 2
    /\ RelayerCount = 3
    /\ Votes[Key(1, 1, Transfer)] # NoneVal
    /\ \A r \in Relayers : has_voted(unwrap(Votes[Key(1, 1, Transfer)]), r)
    /\ Len(unwrap(Votes[Key(1, 1, Transfer)]).votes_against) = 2
    /\ StatusOf(Votes[Key(1, 1, Transfer)]) = Rejected



-----------------------------------------------------------------------------
\* The errors of the pallet, and the bad origin of the origin checks
PalletErrors ==
    {"InvalidThreshold", "InvalidChainId", "ChainAlreadyWhitelisted", "ChainNotWhitelisted",
     "ResourceDoesNotExist", "RelayerAlreadyExists", "RelayerInvalid", "MustBeRelayer",
     "RelayerAlreadyVoted", "ProposalAlreadyComplete", "ProposalExpired",
     "ProposalDoesNotExist", "BadOrigin"}

(* C37 as stated: every call that returns a bad origin or one of the       *)
(* pallet's errors leaves the storage as it was and deposits no event.     *)
C37_FailuresWriteNothing ==
    [][(op' # "set_block_number" /\ result' \in PalletErrors)
          => storage' = storage /\ events' = <<>>]_vars

(* C37: a call that returns a bad origin or one of the pallet's errors     *)
(* without having dispatched a proposal's call leaves the storage as it    *)
(* was and deposits no event.  When a call has been dispatched, the error  *)
(* returned is the error of the dispatched call, whatever its kind, and it *)
(* is returned after the writes of the approval: the record is stored      *)
(* Approved and ProposalApproved is deposited.                             *)
C37_ChecksBeforeWrites ==
    [][/\ (op' # "set_block_number" /\ result' \in PalletErrors /\ dispatched' = <<>>)
          => storage' = storage /\ events' = <<>>
       /\ (result' # "Ok" /\ dispatched' # <<>>)
          => LET d == dispatched'[1]
             IN  /\ Len(dispatched') = 1
                 /\ result' = d[5]
                 /\ StatusOf(Votes[Key(d[1], d[2], d[3])]) \in {"Absent", Initiated}
                 /\ StatusOf(Votes'[Key(d[1], d[2], d[3])]) = Approved
                 /\ events'[Len(events')] = <<"ProposalApproved", d[1], d[2]>>]_vars

\* A relayer's second vote on an open proposal has been turned away
C37_Witness ==
    /\ op = "reject_proposal"
    /\ result = "RelayerAlreadyVoted"
    /\ events = <<>>
    /\ dispatched = <<>>
    /\ StatusOf(Votes[Key(1, 1, BridgeSetThreshold)]) = Initiated



-----------------------------------------------------------------------------
\* The outcomes, in the current state, of the admin calls over their arguments
AdminOutcomes ==
    {set_threshold(Ctx, o, th) : o \in AdminOrigins, th \in 0..MaxThreshold}
    \cup {set_resource(Ctx, o, r, Method) : o \in AdminOrigins, r \in ResourceIds}
    \cup {remove_resource(Ctx, o, r) : o \in AdminOrigins, r \in ResourceIds}
    \cup {whitelist_chain(Ctx, o, c) : o \in AdminOrigins, c \in ChainIds}
    \cup {add_relayer(Ctx, o, v) : o \in AdminOrigins, v \in Accounts}
    \cup {remove_relayer(Ctx, o, v) : o \in AdminOrigins, v \in Accounts}

\* The outcomes, in the current state, of the outbound transfers
TransferOutcomes ==
    {transfer_fungible(Ctx, d, r, Recipient, Amount) : d \in ChainIds, r \in ResourceIds}
    \cup {transfer_nonfungible(Ctx, d, r, TokenId, Recipient, Metadata) :
              d \in ChainIds, r \in ResourceIds}
    \cup {transfer_generic(Ctx, d, r, Metadata) : d \in ChainIds, r \in ResourceIds}

\* The outcomes of the calls that take no proposal
OtherOutcomes == AdminOutcomes \cup TransferOutcomes

-----------------------------------------------------------------------------
TransferCalls == {"transfer_fungible", "transfer_nonfungible", "transfer_generic"}

-----------------------------------------------------------------------------
(* C40: every transfer_hash call that returns Ok has deposited exactly one *)
(* event, GenericTransfer(dest, n, HashId, bytes of the hash), for a chain *)
(* dest that was whitelisted and with n the nonce after the one stored for *)
(* dest; so a call to a chain that is not whitelisted does not return Ok.  *)
C40_TransferHash ==
    [][(op' = "transfer_hash" /\ result' = "Ok") =>
         /\ Len(events') = 1
         /\ events'[1][1] = "GenericTransfer"
         /\ chain_whitelisted(Store, events'[1][2])
         /\ events'[1][3] = unwrap(ChainNonces[events'[1][2]]) + 1
         /\ events'[1][4] = HashId
         /\ events'[1][5] \in Hashes]_vars


=============================================================================
